---- MODULE Spec2Model ----
(***************************************************************************)
(* The "works" CRUD router of swagger-docs (src/models/work.model.js):     *)
(* five Express handlers over one Mongoose model.  The store is the        *)
(* MongoDB collection; every await in a handler is a point where other     *)
(* requests may run, so each action is the code between two awaits         *)
(* together with the database call the await waits for.                    *)
(*                                                                         *)
(* Library behaviour the handlers rely on (Mongoose 6 and later):          *)
(*  - findById casts its argument and throws CastError on a malformed id;  *)
(*  - findByIdAndUpdate runs no validators, casts the update, drops keys   *)
(*    whose value is undefined, applies $set atomically and returns the    *)
(*    document as it was BEFORE the update (or null when none matched);    *)
(*  - save() validates the document (required paths, String required       *)
(*    rejects undefined, null and ""), inserts a new document, and for a   *)
(*    loaded document without modified paths writes nothing but fails      *)
(*    with DocumentNotFoundError when the document is gone;                *)
(*  - res.json() after a response was sent throws ERR_HTTP_HEADERS_SENT.   *)
(***************************************************************************)
EXTENDS Integers, Sequences, FiniteSets, TLC

\* ---------------------------------------------------------------- bounds
MaxInFlight == 2     \* requests that may be in progress at once
MaxReqs == 3         \* requests received in one behaviour

Slots == 1..MaxInFlight

\* ------------------------------------------------------------ data model
\* JavaScript values of a body field / document path.
Undefined == "<undefined>"
Null == "<null>"
Empty == ""

\* req.body of POST and PUT: {title, description}
Bodies ==
  { <<"a", "a">>, <<"b", "b">>, <<Undefined, "b">>, <<"a", Undefined>>,
    <<Empty, Null>> }

\* Identifiers (req.params.id): 1, 2, ... are the ObjectIds the server
\* generates; GhostId is a well-formed ObjectId no document ever had;
\* BadId is a string that is not an ObjectId; NoId is the id of no request.
GhostId == 0
BadId == 0 - 1
NoId == 0 - 2

Doc(i, t, d) == [id |-> i, title |-> t, description |-> d]
NoDoc == Doc(NoId, Undefined, Undefined)     \* JavaScript null result

VARIABLES
  store,     \* the works collection, in insertion order
  nextId,    \* next ObjectId the driver generates
  slots,     \* the requests in progress or last answered, per connection
  issued,    \* ids returned to a client by a 200 POST
  removed,   \* ids whose document a findByIdAndDelete removed
  nreq       \* requests received so far

vars == <<store, nextId, slots, issued, removed, nreq>>

\* A required check that only rejects a missing key (null and "" pass).
RequiredRejectsUndefinedOnly(v) == v # Undefined

\* schema: required: true on a String path (SchemaString.checkRequired)
workSchemaRequired(v) == v \notin {Undefined, Null, Empty}

\* Document.validate() under workSchema
workSchema(doc) ==
  workSchemaRequired(doc.title) /\ workSchemaRequired(doc.description)

\* ------------------------------------------------------- store primitives
Has(st, id) == \E i \in DOMAIN st : st[i].id = id
First(st, id) == CHOOSE i \in DOMAIN st : st[i].id = id /\ \A j \in 1..(i-1) : st[j].id # id
Count(st, id) == Cardinality({ i \in DOMAIN st : st[i].id = id })

\* Work.find({})
Find(st) == st

\* Work.findById(id), id well-formed
FindById(st, id) == IF Has(st, id) THEN st[First(st, id)] ELSE NoDoc

\* A save that replaces the collection by the new document.
InsertReplacing(st, doc) == <<doc>>

\* newWork.save() of a new, valid document
Insert(st, doc) == Append(st, doc)

\* A delete whose filter is ignored: the oldest document goes.
DeleteIgnoringId(st, id) == IF st = <<>> THEN st ELSE Tail(st)

\* Work.findByIdAndDelete(id): the collection afterwards
FindByIdAndDelete(st, id) ==
  IF Has(st, id)
    THEN LET k == First(st, id) IN
         [ i \in 1..(Len(st) - 1) |-> IF i < k THEN st[i] ELSE st[i + 1] ]
    ELSE st

\* castUpdate: a key whose value is undefined is dropped from $set
CastUpdate(v, old) == IF v = Undefined THEN old ELSE v

\* Work.findByIdAndUpdate(id, {title, description}): the collection afterwards
FindByIdAndUpdate(st, id, t, d) ==
  IF Has(st, id)
    THEN LET k == First(st, id) IN
         [ st EXCEPT ![k] = Doc(id, CastUpdate(t, st[k].title),
                                    CastUpdate(d, st[k].description)) ]
    ELSE st

\* -------------------------------------------------------------- requests
Idle ==
  [ kind |-> "none", id |-> NoId, title |-> Undefined, description |-> Undefined,
    pc |-> "idle", status |-> 0, attempts |-> 0, message |-> "",
    escaped |-> FALSE, err |-> "none",
    work |-> NoDoc, updateWork |-> NoDoc, resp |-> NoDoc, list |-> <<>>,
    missing |-> FALSE, wrote |-> FALSE, live |-> {},
    alone0 |-> FALSE, nstarted |-> 0 ]

Free(s) == slots[s].pc \in {"idle", "done"}

\* a request as the handler is entered; alone0: no other request is in progress
NewReq(kind, id, t, d) ==
  [ Idle EXCEPT !.kind = kind, !.id = id, !.title = t, !.description = d,
                !.alone0 = \A o \in Slots : Free(o) ]

\* res.status(code).json(body) on a response not yet sent
Send(r, code, msg, doc, lst) ==
  [ r EXCEPT !.status = code, !.attempts = @ + 1, !.message = msg,
             !.resp = doc, !.list = lst ]

\* an error leaves an async handler that has no try/catch around it
Uncaught(r, e) ==
  [ r EXCEPT !.err = IF @ = "none" THEN e ELSE @, !.escaped = TRUE, !.pc = "done" ]

\* catch (error) { console.log(error); res.status(500).json({message}) }
Catch(r, e, msg) ==
  LET r1 == [ r EXCEPT !.err = IF @ = "none" THEN e ELSE @, !.pc = "done" ] IN
  IF r1.status = 0
    THEN Send(r1, 500, msg, NoDoc, <<>>)
    ELSE [ r1 EXCEPT !.attempts = @ + 1, !.escaped = TRUE ]

\* res.status(code).json(body) inside the try block, last statement
TrySend(r, code, msg, doc, catchMsg) ==
  IF r.status = 0
    THEN [ Send(r, code, msg, doc, <<>>) EXCEPT !.pc = "done" ]
    ELSE Catch([ r EXCEPT !.attempts = @ + 1 ], "ERR_HTTP_HEADERS_SENT", catchMsg)

\* The record of an answered request is kept until the next request arrives;
\* a request in progress counts the requests that arrive meanwhile (0, 1, many).
Seen(o, starts) ==
  IF ~starts \/ slots[o].pc = "idle" THEN slots[o]
  ELSE IF slots[o].pc = "done" THEN Idle
  ELSE [ slots[o] EXCEPT !.nstarted = IF @ < 2 THEN @ + 1 ELSE @ ]

Step(s, r, starts) ==
  slots' = [ o \in Slots |-> IF o = s THEN r ELSE Seen(o, starts) ]

\* a request arrives on the first connection that is not busy
Arrive(s) ==
  /\ Free(s) /\ \A o \in 1..(s - 1) : ~Free(o)
  /\ nreq < MaxReqs /\ nreq' = nreq + 1
Targets == issued \cup {GhostId, BadId}

Init ==
  /\ store = <<>>
  /\ nextId = 1
  /\ slots = [ s \in Slots |-> Idle ]
  /\ issued = {}
  /\ removed = {}
  /\ nreq = 0

\* router.get("/works")
GetWorks(s) ==
  /\ Arrive(s)
  /\ \E fail \in BOOLEAN :
       /\ LET r == [ NewReq("list", NoId, Undefined, Undefined)
                       EXCEPT !.live = issued \ removed ] IN
          Step(s, IF fail THEN Uncaught(r, "StoreError")
                  ELSE [ Send(r, 200, "", NoDoc, Find(store)) EXCEPT !.pc = "done" ],
               TRUE)
  /\ UNCHANGED <<store, nextId, issued, removed>>

\* router.get("/works/:id")
GetWork(s, id) ==
  /\ Arrive(s)
  /\ \E fail \in BOOLEAN :
       /\ fail => id # BadId
       /\ LET r == NewReq("get", id, Undefined, Undefined)
              work == FindById(store, id)
          IN Step(s, IF id = BadId THEN Uncaught(r, "CastError")
                     ELSE IF fail THEN Uncaught(r, "StoreError")
                     ELSE [ Send([ r EXCEPT !.work = work ], 200, "", work, <<>>)
                              EXCEPT !.pc = "done" ],
                  TRUE)
  /\ UNCHANGED <<store, nextId, issued, removed>>

\* router.post("/works")
PostWork(s, body) ==
  /\ Arrive(s)
  /\ nextId' = nextId + 1
  /\ \E fail \in BOOLEAN :
       LET newWork == Doc(nextId, body[1], body[2])
           r == [ NewReq("post", NoId, body[1], body[2])
                    EXCEPT !.missing = ~Has(store, newWork.id),
                           !.wrote = (store' # store) ]
           msg == "unable to create new work"
           saved == workSchema(newWork) /\ ~fail
       IN /\ fail => workSchema(newWork)
          /\ store' = IF saved THEN Insert(store, newWork) ELSE store
          /\ issued' = IF saved THEN issued \cup {newWork.id} ELSE issued
          /\ Step(s, IF ~workSchema(newWork) THEN Catch(r, "ValidationError", msg)
                     ELSE IF fail THEN Catch(r, "StoreError", msg)
                     ELSE TrySend(r, 200, "new work created", newWork, msg),
                  TRUE)
  /\ UNCHANGED removed

\* router.delete("/works/:id"), up to the first await: Work.findById
DeleteFindById(s, id) ==
  /\ Arrive(s)
  /\ \E fail \in BOOLEAN :
       /\ fail => id # BadId
       /\ LET r == [ NewReq("delete", id, Undefined, Undefined)
                       EXCEPT !.missing = (id # BadId /\ ~Has(store, id)) ]
              msg == "unable to delete work"
              work == FindById(store, id)
          IN Step(s, IF id = BadId THEN Catch(r, "CastError", msg)
                     ELSE IF fail THEN Catch(r, "StoreError", msg)
                     ELSE IF work = NoDoc
                       THEN [ Send(r, 404, "work not found", NoDoc, <<>>)
                                EXCEPT !.pc = "del" ]
                     ELSE [ r EXCEPT !.work = work, !.pc = "del" ],
                  TRUE)
  /\ UNCHANGED <<store, nextId, issued, removed>>

\* router.delete("/works/:id"), second await: Work.findByIdAndDelete
DeleteFindByIdAndDelete(s) ==
  /\ slots[s].pc = "del"
  /\ \E fail \in BOOLEAN :
       LET q == slots[s]
           r == [ q EXCEPT !.wrote = (store' # store) ]
           msg == "unable to delete work"
       IN /\ store' = IF fail THEN store ELSE FindByIdAndDelete(store, q.id)
          /\ removed' = IF ~fail /\ Has(store, q.id) THEN removed \cup {q.id}
                        ELSE removed
          /\ Step(s, IF fail THEN Catch(r, "StoreError", msg)
                     ELSE TrySend(r, 200, "work deleted", r.work, msg),
                  FALSE)
  /\ UNCHANGED <<nextId, issued, nreq>>

\* router.put("/works/:id"), up to the first await: Work.findById
PutFindById(s, id, body) ==
  /\ Arrive(s)
  /\ \E fail \in BOOLEAN :
       /\ fail => id # BadId
       /\ LET r == [ NewReq("put", id, body[1], body[2])
                       EXCEPT !.missing = (id # BadId /\ ~Has(store, id)) ]
              msg == "unable to update work"
              work == FindById(store, id)
          IN Step(s, IF id = BadId THEN Catch(r, "CastError", msg)
                     ELSE IF fail THEN Catch(r, "StoreError", msg)
                     ELSE IF work = NoDoc
                       THEN [ Send(r, 404, "no book found", NoDoc, <<>>)
                                EXCEPT !.pc = "done" ]
                     ELSE [ r EXCEPT !.work = work, !.pc = "upd" ],
                  TRUE)
  /\ UNCHANGED <<store, nextId, issued, removed>>

\* router.put("/works/:id"), second await: Work.findByIdAndUpdate
PutFindByIdAndUpdate(s) ==
  /\ slots[s].pc = "upd"
  /\ \E fail \in BOOLEAN :
       LET q == slots[s]
           r == [ q EXCEPT !.wrote = (store' # store) ]
           msg == "unable to update work"
           updateWork == FindById(store, q.id)
       IN /\ store' = IF fail THEN store
                      ELSE FindByIdAndUpdate(store, q.id, q.title, q.description)
          /\ Step(s, IF fail THEN Catch(r, "StoreError", msg)
                     ELSE IF updateWork = NoDoc
                       \* updateWork.save() on null
                       THEN Catch([ r EXCEPT !.missing = TRUE ], "TypeError", msg)
                     ELSE [ r EXCEPT !.updateWork = updateWork, !.pc = "save" ],
                  FALSE)
  /\ UNCHANGED <<nextId, issued, removed, nreq>>

\* router.put("/works/:id"), third await: updateWork.save()
PutSave(s) ==
  /\ slots[s].pc = "save"
  /\ \E fail \in BOOLEAN :
       LET r == slots[s]
           msg == "unable to update work"
       IN /\ fail => workSchema(r.updateWork)
          /\ Step(s, IF ~workSchema(r.updateWork) THEN Catch(r, "ValidationError", msg)
                     ELSE IF fail THEN Catch(r, "StoreError", msg)
                     ELSE IF ~Has(store, r.id)
                       THEN Catch(r, "DocumentNotFoundError", msg)
                     ELSE TrySend(r, 200, "", r.updateWork, msg),
                  FALSE)
  /\ UNCHANGED <<store, nextId, issued, removed, nreq>>

Next ==
  \E s \in Slots :
    \/ GetWorks(s)
    \/ \E id \in Targets : GetWork(s, id)
    \/ \E body \in Bodies : PostWork(s, body)
    \/ \E id \in Targets : DeleteFindById(s, id)
    \/ DeleteFindByIdAndDelete(s)
    \/ \E id \in Targets, body \in Bodies : PutFindById(s, id, body)
    \/ PutFindByIdAndUpdate(s)
    \/ PutSave(s)

Spec == Init /\ [][Next]_vars

\* ------------------------------------------------------------------ claims
Req(s) == slots[s]
Answered(s) == Req(s).pc = "done"
DbErrors == {"StoreError", "CastError", "ValidationError", "DocumentNotFoundError"}
HasField(v) == v # Undefined
\* a body field that is missing, null or empty
Lacks(v) == v \in {Undefined, Null, Empty}
\* no other request took a step since the request of s was received
Quiet(s) == Req(s).alone0 /\ Req(s).nstarted = 0

\* C1: a DELETE for a well-formed id that is not in the store is answered 404
\* (500 only when the store itself failed on findById), never 200, and its
\* database calls leave the collection as it was.
C1_DeleteMissing ==
  \A s \in Slots :
    (Req(s).kind = "delete" /\ Req(s).missing) =>
      /\ Req(s).status # 200
      /\ ~Req(s).wrote
      /\ \/ Req(s).status = 404 /\ Req(s).message = "work not found"
         \/ Req(s).status = 500 /\ Req(s).err = "StoreError"

\* C1 witness: a second DELETE of an id an earlier DELETE removed got its 404.
C1_Witness ==
  \E s \in Slots :
    /\ Req(s).kind = "delete" /\ Answered(s) /\ Req(s).missing
    /\ Req(s).id \in removed /\ Req(s).status = 404

\* C2: whenever a database call or validation throws inside a handler, the
\* handler catches it and answers 500 with its fixed message; nothing escapes.
C2_AllErrorsCaught ==
  \A s \in Slots :
    (Answered(s) /\ Req(s).err \in DbErrors) =>
      Req(s).status = 500 /\ Req(s).message # "" /\ ~Req(s).escaped

\* C3: a PUT whose id is not in the store (at findById, or at
\* findByIdAndUpdate after a concurrent DELETE) is answered 404 and writes nothing.
C3_PutMissing404 ==
  \A s \in Slots :
    (Req(s).kind = "put" /\ Answered(s) /\ Req(s).missing /\ Req(s).err # "StoreError") =>
      Req(s).status = 404 /\ ~Req(s).wrote

\* C4: a PUT on an existing id with both fields in the body and no other
\* request interleaved is answered 200 with the document as it was before,
\* and the store then holds the body's title and description under that id.
C4_PutExisting ==
  \A s \in Slots :
    ( /\ Req(s).kind = "put" /\ Answered(s) /\ Quiet(s)
      /\ ~Req(s).missing /\ Req(s).id # BadId /\ Req(s).err # "StoreError"
      /\ HasField(Req(s).title) /\ HasField(Req(s).description) ) =>
      /\ Req(s).status = 200
      /\ Req(s).resp = Req(s).work
      /\ FindById(store, Req(s).id) = Doc(Req(s).id, Req(s).title, Req(s).description)

\* C5: a POST whose body lacks title or description (missing, null or empty)
\* is answered 500 with the fixed message and adds nothing to the collection.
C5_PostInvalid ==
  \A s \in Slots :
    ( /\ Req(s).kind = "post"
      /\ (Lacks(Req(s).title) \/ Lacks(Req(s).description)) ) =>
      /\ Req(s).status = 500 /\ Req(s).message = "unable to create new work"
      /\ ~Req(s).wrote
      /\ ~Has(store, nextId - 1)

\* C5 witness: a POST without description was refused while an item is stored.
C5_Witness ==
  \E s \in Slots :
    /\ Req(s).kind = "post" /\ Answered(s) /\ Req(s).description = Undefined
    /\ Req(s).status = 500 /\ store # <<>>

\* C6: a POST with title and description (non-empty text) is answered 200
\* with the new item under an id no stored item had (500 only when the store
\* failed); every id so issued and not yet removed is in the collection
\* exactly once, and GET /works lists it exactly once.
C6_CreatedListedOnce ==
  /\ \A s \in Slots :
       ( /\ Req(s).kind = "post"
         /\ ~Lacks(Req(s).title) /\ ~Lacks(Req(s).description) ) =>
         \/ /\ Req(s).status = 200 /\ Req(s).missing
            /\ Req(s).resp.id \in issued
            /\ Req(s).resp = Doc(Req(s).resp.id, Req(s).title, Req(s).description)
         \/ Req(s).status = 500 /\ Req(s).err = "StoreError"
  /\ \A i \in issued \ removed : Count(store, i) = 1
  /\ \A s \in Slots :
       (Req(s).kind = "list" /\ Req(s).status = 200) =>
         \A i \in Req(s).live : Count(Req(s).list, i) = 1

\* C6 witness: GET /works answered with two created items.
C6_Witness ==
  \E s \in Slots :
    /\ Req(s).kind = "list" /\ Req(s).status = 200
    /\ Cardinality(Req(s).live) = 2 /\ Len(Req(s).list) = 2

\* C7: two PUTs to the same existing id that run concurrently, with both
\* fields in each body, nothing else in between and no DELETE, are both
\* answered 200 and the item ends with the pair of one of them.
C7_ConcurrentPuts ==
  \A s, o \in Slots :
    ( /\ s # o
      /\ Req(s).kind = "put" /\ Req(o).kind = "put" /\ Answered(s) /\ Answered(o)
      /\ Req(s).id = Req(o).id /\ Req(s).id \notin removed
      /\ ~Req(s).missing /\ ~Req(o).missing /\ Req(s).id # BadId
      /\ Req(s).err # "StoreError" /\ Req(o).err # "StoreError"
      /\ HasField(Req(s).title) /\ HasField(Req(s).description)
      /\ HasField(Req(o).title) /\ HasField(Req(o).description)
      /\ Req(s).alone0 /\ Req(s).nstarted = 1 /\ Req(o).nstarted = 0 ) =>
      /\ Req(s).status = 200 /\ Req(o).status = 200
      /\ FindById(store, Req(s).id) \in
           { Doc(Req(s).id, Req(s).title, Req(s).description),
             Doc(Req(o).id, Req(o).title, Req(o).description) }

\* C8: no handler reaches a second res.status(...).json(...) for one request.
C8_OneResponse ==
  \A s \in Slots : Req(s).attempts <= 1

\* C9: for each id at most one DELETE is answered 200.
C9_OneDelete200 ==
  \A s, o \in Slots :
    ( /\ s # o /\ Req(s).kind = "delete" /\ Req(o).kind = "delete"
      /\ Req(s).id = Req(o).id ) =>
      ~(Req(s).status = 200 /\ Req(o).status = 200)

\* C10: every stored work item has a title and a description, both non-empty.
C10_StoredValid ==
  \A i \in DOMAIN store : workSchema(store[i])
====
